---- MODULE Spec2Model ----
(***************************************************************************)
(* Model of the structured-buffer layout engine WebGPUStruct               *)
(* (src/src/utils/WebGPUStruct.ts, lines 1-570): the layout compiler, the  *)
(* path index, the typed accessors and the backing buffer.                 *)
(*                                                                         *)
(* Numbers.  A JavaScript number is modelled by an integer.  The layout    *)
(* arithmetic of the source only produces non-negative integers, NaN and   *)
(* (locally, as Math.max() of no arguments) -Infinity; the last two are    *)
(* the negative sentinels NaN and NegInf, and every arithmetic step of the *)
(* source is an operator that handles them the way IEEE-754 does.          *)
(*                                                                         *)
(* Strings.  A field name or path segment is a sequence of atoms (strings  *)
(* without a dot); "a.0.b" is <<"a", "0", "b">>.  Joining a path with '.'  *)
(* is the concatenation of its segments, so two different paths can have   *)
(* the same key, exactly as in the source.                                 *)
(***************************************************************************)
EXTENDS Integers, Sequences, FiniteSets, TLC

(* ----------------------------------------------------------------------- *)
(* JavaScript numbers                                                      *)
(* ----------------------------------------------------------------------- *)

\* NaN: the value of x % 0 and of every operation on NaN.
NaN == -1

\* -Infinity: the value of Math.max() applied to no arguments.
NegInf == -2

IsFinite(x) == x >= 0

\* Math.max(a, b) for a, b finite, NaN or -Infinity.
JsMax(a, b) ==
  IF a = NaN \/ b = NaN THEN NaN
  ELSE IF a = NegInf THEN b
  ELSE IF b = NegInf THEN a
  ELSE IF a >= b THEN a ELSE b

\* a + b where b is finite or NaN and a is finite or NaN.
JsAdd(a, b) ==
  IF a = NaN \/ b = NaN THEN NaN ELSE a + b

\* a * b where a is a finite loop index or length and b is finite or NaN
\* (0 * NaN is NaN).
JsMul(a, b) ==
  IF a = NaN \/ b = NaN THEN NaN ELSE a * b

\* Math.max(...xs) over a sequence of finite numbers; -Infinity when empty.
RECURSIVE JsMaxOf(_)
JsMaxOf(xs) ==
  IF xs = <<>> THEN NegInf ELSE JsMax(Head(xs), JsMaxOf(Tail(xs)))

\* AlignmentPadding without the outer modulo: an aligned offset is padded by
\* a whole alignment.
AlignmentPaddingNoModulo(offset, alignment) ==
  IF offset = NaN \/ alignment = NaN \/ alignment = NegInf \/ alignment = 0
  THEN NaN
  ELSE alignment - (offset % alignment)

\* (alignment - (offset % alignment)) % alignment.  x % 0 is NaN, and with
\* alignment = -Infinity the difference is -Infinity and -Infinity % y is NaN.
AlignmentPadding(offset, alignment) ==
  IF offset = NaN \/ alignment = NaN \/ alignment = NegInf \/ alignment = 0
  THEN NaN
  ELSE (alignment - (offset % alignment)) % alignment

\* Math.ceil(stride / alignment) * alignment, with stride finite or NaN.
\* With alignment = -Infinity: stride / -Infinity is -0 and -0 * -Infinity is NaN.
CeilToAlignment(stride, alignment) ==
  IF stride = NaN \/ alignment = NaN \/ alignment = NegInf \/ alignment = 0
  THEN NaN
  ELSE ((stride + alignment - 1) \div alignment) * alignment

(* ----------------------------------------------------------------------- *)
(* Type table and layout specifications                                    *)
(* ----------------------------------------------------------------------- *)

\* WebGPUStruct.TYPES: [byteSize, alignment, componentCount]
TYPES ==
  [ f32     |-> <<4, 4, 1>>,
    i32     |-> <<4, 4, 1>>,
    u32     |-> <<4, 4, 1>>,
    vec2f   |-> <<8, 8, 2>>,
    vec2i   |-> <<8, 8, 2>>,
    vec2u   |-> <<8, 8, 2>>,
    vec3f   |-> <<12, 16, 3>>,
    vec3i   |-> <<12, 16, 3>>,
    vec3u   |-> <<12, 16, 3>>,
    vec4f   |-> <<16, 16, 4>>,
    vec4i   |-> <<16, 16, 4>>,
    vec4u   |-> <<16, 16, 4>>,
    mat2x2f |-> <<16, 8, 4>>,
    mat3x3f |-> <<48, 16, 9>>,
    mat4x4f |-> <<64, 16, 16>> ]

\* A field of a StructLayout: a primitive tag, a nested StructLayout, or an
\* array [element, length] whose element is a compiled WebGPUStruct
\* ("compiled", built from `layout` with option `uniform`), an inline
\* StructLayout ("inline") or anything else, such as a type tag ("tag").
\* A StructLayout is the sequence of its fields in Object.entries order.
Prim(t) ==
  [kind |-> "prim", type |-> t, layout |-> <<>>, length |-> 0,
   elem |-> "", uniform |-> FALSE]

Nested(l) ==
  [kind |-> "struct", type |-> "", layout |-> l, length |-> 0,
   elem |-> "", uniform |-> FALSE]

ArrayOf(e, l, u, n) ==
  [kind |-> "array", type |-> "", layout |-> l, length |-> n,
   elem |-> e, uniform |-> u]

\* The array [t, n] whose element is the string t.
TagArray(t, n) ==
  [kind |-> "array", type |-> t, layout |-> <<>>, length |-> n,
   elem |-> "tag", uniform |-> FALSE]

\* The key of the i-th entry of a StructLayout.
FieldNames == <<"a", "b", "c", "d", "e", "f", "g", "h">>

KeyAt(i) == FieldNames[i]

\* `${i}` for a loop index i.
IndexNames == <<"0", "1", "2", "3", "4", "5", "6", "7">>

IndexStr(i) == IndexNames[i + 1]

\* A FieldInfo.  isArray, arrayLength and arrayStride are undefined in the
\* source unless the leaf is an array member: FALSE, 0, 0 here.
FieldInfo(name, type, offset, size, alignment, componentCount, path) ==
  [name |-> name, type |-> type, offset |-> offset, size |-> size,
   alignment |-> alignment, componentCount |-> componentCount,
   path |-> path, isArray |-> FALSE, arrayLength |-> 0, arrayStride |-> 0]

\* What _processField returns, or the error it throws.
Result(fields, alignment, nextOffset) ==
  [err |-> "none", fields |-> fields, alignment |-> alignment,
   nextOffset |-> nextOffset]

Throw(e) ==
  [err |-> e, fields |-> <<>>, alignment |-> 0, nextOffset |-> 0]

\* path.join('.')
RECURSIVE Join(_)
Join(path) ==
  IF path = <<>> THEN <<>> ELSE Head(path) \o Join(Tail(path))

(* ----------------------------------------------------------------------- *)
(* Layout compiler                                                         *)
(* ----------------------------------------------------------------------- *)

\* Property names every object literal inherits from Object.prototype, as
\* far as they are used here: WebGPUStruct.TYPES[name] is a function for
\* each, so `!typeInfo` is false and destructuring it throws a TypeError.
Inherited == {"toString", "constructor"}

\* _processPrimitive
ProcessPrimitive(name, type, offset, path) ==
  IF type \in Inherited THEN Throw("TypeError")
  ELSE IF type \notin DOMAIN TYPES THEN Throw("UnknownType")
  ELSE
    LET size == TYPES[type][1]
        alignment == TYPES[type][2]
        componentCount == TYPES[type][3]
        alignmentPadding == AlignmentPadding(offset, alignment)
        padded == JsAdd(offset, alignmentPadding)
    IN Result(<<FieldInfo(name, type, padded, size, alignment,
                          componentCount, path)>>,
              alignment, JsAdd(padded, size))

\* fields.map(field => ({...field, offset: baseOffset + field.offset}))
Rebase(fields, baseOffset) ==
  [k \in 1..Len(fields) |->
     [fields[k] EXCEPT !.offset = JsAdd(baseOffset, @)]]

\* One array element: elementStruct.fields.forEach(elementField => ...)
ElementFields(elementFields, name, i, elementOffset, path, length, arrayStride) ==
  [k \in 1..Len(elementFields) |->
     [elementFields[k] EXCEPT
        !.name = name \o <<IndexStr(i)>> \o elementFields[k].name,
        !.offset = JsAdd(elementOffset, elementFields[k].offset),
        !.path = path \o <<(<<IndexStr(i)>>), elementFields[k].name>>,
        !.isArray = TRUE,
        !.arrayLength = length,
        !.arrayStride = arrayStride]]

\* for (let i = 0; i < length; i++) { ... fields.push(...) }, from index i on
RECURSIVE ArrayLoop(_, _, _, _, _, _, _)
ArrayLoop(elementFields, name, i, baseOffset, path, length, arrayStride) ==
  IF i >= length THEN <<>>
  ELSE ElementFields(elementFields, name, i,
                     JsAdd(baseOffset, JsMul(i, arrayStride)),
                     path, length, arrayStride)
       \o ArrayLoop(elementFields, name, i + 1, baseOffset, path, length,
                    arrayStride)

\* fieldMap.set(field.path.join('.'), field) for every field, in order:
\* a later field replaces an earlier one with the same key.
RECURSIVE FieldMapOf(_)
FieldMapOf(fields) ==
  IF fields = <<>> THEN <<>>
  ELSE LET n == Len(fields)
           front == FieldMapOf(SubSeq(fields, 1, n - 1))
           key == Join(fields[n].path)
       IN [k \in (DOMAIN front) \cup {key} |->
             IF k = key THEN fields[n] ELSE front[k]]

\* new ArrayBuffer(totalSize): ToIndex(NaN) is 0.  The buffer is kept as its
\* 32-bit words (every size in TYPES is a multiple of 4).
ByteLength(totalSize) == IF totalSize = NaN THEN 0 ELSE totalSize

NewBuffer(totalSize) == [w \in 1..(ByteLength(totalSize) \div 4) |-> 0]

RECURSIVE ProcessField(_, _, _, _)
RECURSIVE ProcessNestedStruct(_, _, _)
RECURSIVE NestedLoop(_, _, _, _)
RECURSIVE ProcessArray(_, _, _, _)
RECURSIVE ComputeLayout(_, _)
RECURSIVE LayoutLoop(_, _, _)
RECURSIVE NewStruct(_, _)

\* _processField
ProcessField(name, typeSpec, offset, path) ==
  IF typeSpec.kind = "array" THEN ProcessArray(name, typeSpec, offset, path)
  ELSE IF typeSpec.kind = "struct"
    THEN ProcessNestedStruct(typeSpec.layout, offset, path)
  ELSE ProcessPrimitive(name, typeSpec.type, offset, path)

\* The accumulators of a loop over Object.entries(...) before its first entry:
\* no fields, maxAlignment 0, offset 0.
NoFields == Result(<<>>, 0, 0)

\* The body of a loop over Object.entries(...) once _processField returned
\* `result` or threw: maxAlignment = Math.max(maxAlignment, result.alignment),
\* fields.push(...result.fields), offset = result.nextOffset.
Accumulate(acc, result) ==
  IF result.err # "none" THEN result
  ELSE Result(acc.fields \o result.fields,
              JsMax(acc.alignment, result.alignment), result.nextOffset)

\* _processNestedStruct: the loop over Object.entries(structLayout), from
\* entry i on; acc carries fields, maxAlignment and nestedOffset.
NestedLoop(structLayout, i, acc, path) ==
  IF i > Len(structLayout) \/ acc.err # "none" THEN acc
  ELSE NestedLoop(structLayout, i + 1,
                  Accumulate(acc,
                             ProcessField(<<KeyAt(i)>>, structLayout[i],
                                          acc.nextOffset,
                                          path \o <<(<<KeyAt(i)>>)>>)),
                  path)

\* NestedResult with the 16-byte floor of uniform buffers on the alignment of
\* the nested record.
NestedResultFloored(loop, offset) ==
  IF loop.err # "none" THEN loop
  ELSE LET structAlignment == JsMax(loop.alignment, 16)
           baseOffset == JsAdd(offset, AlignmentPadding(offset, structAlignment))
           structSize == loop.nextOffset
           totalStructSize ==
             JsAdd(structSize, AlignmentPadding(structSize, structAlignment))
       IN Result(Rebase(loop.fields, baseOffset), structAlignment,
                 JsAdd(baseOffset, totalStructSize))

\* _processNestedStruct after its loop: the base offset, the padded size and
\* the rebased fields.
NestedResult(loop, offset) ==
  IF loop.err # "none" THEN loop
  ELSE LET structAlignment == loop.alignment
           baseOffset == JsAdd(offset, AlignmentPadding(offset, structAlignment))
           structSize == loop.nextOffset
           totalStructSize ==
             JsAdd(structSize, AlignmentPadding(structSize, structAlignment))
       IN Result(Rebase(loop.fields, baseOffset), structAlignment,
                 JsAdd(baseOffset, totalStructSize))

\* _processNestedStruct
ProcessNestedStruct(structLayout, offset, path) ==
  NestedResult(NestedLoop(structLayout, 1, NoFields, path), offset)

\* _processArray once elementStruct is there: alignment, stride and the
\* fields of every element.
ArrayResult(name, length, offset, path, elementStruct) ==
  IF elementStruct.err # "none" THEN Throw(elementStruct.err)
  ELSE
    LET elementSize == elementStruct.totalSize
        elementAlignment ==
          JsMaxOf([k \in 1..Len(elementStruct.fields) |->
                     elementStruct.fields[k].alignment])
        arrayAlignment == elementAlignment
        baseOffset == JsAdd(offset, AlignmentPadding(offset, arrayAlignment))
        arrayStride == CeilToAlignment(JsMax(elementSize, 16), arrayAlignment)
        fields == ArrayLoop(elementStruct.fields, name, 0, baseOffset,
                            path, length, arrayStride)
        totalArraySize == JsMul(length, arrayStride)
    IN Result(fields, arrayAlignment, JsAdd(baseOffset, totalArraySize))

\* NonPositive that lets the length 0 pass.
NonPositiveBelowZero(length) == length < 0

\* length <= 0
NonPositive(length) == length <= 0

\* InlineElement built under the uniform buffer rules.
InlineElementUniform(elementSpec) == NewStruct(elementSpec, TRUE)

\* new WebGPUStruct(elementSpec, { uniformBuffer: false })
InlineElement(elementSpec) == NewStruct(elementSpec, FALSE)

\* _processArray: elementSpec is a WebGPUStruct, or a StructLayout compiled
\* with uniformBuffer false, or neither.
ProcessArray(name, arraySpec, offset, path) ==
  IF NonPositive(arraySpec.length) THEN Throw("InvalidArrayLength")
  ELSE IF arraySpec.elem = "compiled"
    THEN ArrayResult(name, arraySpec.length, offset, path,
                     NewStruct(arraySpec.layout, arraySpec.uniform))
  ELSE IF arraySpec.elem = "inline"
    THEN ArrayResult(name, arraySpec.length, offset, path,
                     InlineElement(arraySpec.layout))
  ELSE Throw("InvalidArrayElement")

\* _computeLayout: the loop over Object.entries(this.layout), from entry i on;
\* acc carries fields, maxAlignment and offset.
LayoutLoop(layout, i, acc) ==
  IF i > Len(layout) \/ acc.err # "none" THEN acc
  ELSE LayoutLoop(layout, i + 1,
                  Accumulate(acc,
                             ProcessField(<<KeyAt(i)>>, layout[i],
                                          acc.nextOffset, <<(<<KeyAt(i)>>)>>)))

\* _computeLayout after its loop: the final padding; fields, fieldMap and
\* totalSize.
LayoutResult(loop, uniformBuffer) ==
  IF loop.err # "none"
  THEN [err |-> loop.err, fields |-> <<>>, fieldMap |-> <<>>, totalSize |-> 0]
  ELSE LET offset == loop.nextOffset
           maxAlignment == loop.alignment
           structAlignment ==
             IF uniformBuffer THEN JsMax(maxAlignment, 16) ELSE maxAlignment
           finalPadding == AlignmentPadding(offset, structAlignment)
       IN [err |-> "none", fields |-> loop.fields,
           fieldMap |-> FieldMapOf(loop.fields),
           totalSize |-> JsAdd(offset, finalPadding)]

\* _computeLayout
ComputeLayout(layout, uniformBuffer) ==
  LayoutResult(LayoutLoop(layout, 1, NoFields), uniformBuffer)

\* constructor, once _computeLayout returned c or threw: the buffer.
StructOf(layout, uniformBuffer, c) ==
  [err |-> c.err, layout |-> layout, fields |-> c.fields,
   fieldMap |-> c.fieldMap, totalSize |-> c.totalSize,
   uniformBuffer |-> uniformBuffer,
   buffer |-> IF c.err = "none" THEN NewBuffer(c.totalSize) ELSE <<>>]

\* NoKeys that finds a key in every specification.
NoKeysNever(layout) == FALSE

\* Object.keys(layout).length === 0
NoKeys(layout) == Len(layout) = 0

\* constructor: the record it builds, or the error it throws.
NewStruct(layout, uniformBuffer) ==
  IF NoKeys(layout)
  THEN [err |-> "InvalidLayout", layout |-> layout, fields |-> <<>>,
        fieldMap |-> <<>>, totalSize |-> 0, uniformBuffer |-> uniformBuffer,
        buffer |-> <<>>]
  ELSE StructOf(layout, uniformBuffer, ComputeLayout(layout, uniformBuffer))

(* ----------------------------------------------------------------------- *)
(* Typed accessors                                                         *)
(* ----------------------------------------------------------------------- *)

\* The characters of each type tag, for field.type.includes(c).
TypeChars ==
  [ f32     |-> {"f", "3", "2"},
    i32     |-> {"i", "3", "2"},
    u32     |-> {"u", "3", "2"},
    vec2f   |-> {"v", "e", "c", "2", "f"},
    vec2i   |-> {"v", "e", "c", "2", "i"},
    vec2u   |-> {"v", "e", "c", "2", "u"},
    vec3f   |-> {"v", "e", "c", "3", "f"},
    vec3i   |-> {"v", "e", "c", "3", "i"},
    vec3u   |-> {"v", "e", "c", "3", "u"},
    vec4f   |-> {"v", "e", "c", "4", "f"},
    vec4i   |-> {"v", "e", "c", "4", "i"},
    vec4u   |-> {"v", "e", "c", "4", "u"},
    mat2x2f |-> {"m", "a", "t", "2", "x", "f"},
    mat3x3f |-> {"m", "a", "t", "3", "x", "f"},
    mat4x4f |-> {"m", "a", "t", "4", "x", "f"} ]

Includes(type, c) == c \in TypeChars[type]

IsFloat(field) == Includes(field.type, "f")

IsInt(field) == Includes(field.type, "i") /\ ~Includes(field.type, "u")

IsUint(field) == Includes(field.type, "u")

\* A word of the buffer is the signed 32-bit integer with its bit pattern.
\* The numbers of the model are the integers -2^31 .. 2^31 - 1.
RECURSIVE Pow2(_)
Pow2(n) == IF n = 0 THEN 1 ELSE 2 * Pow2(n - 1)

Abs(v) == IF v < 0 THEN -v ELSE v

\* floor(log2(m)) for m >= 1
RECURSIVE Log2(_)
Log2(m) == IF m <= 1 THEN 0 ELSE 1 + Log2(m \div 2)

\* The 24-bit significand of the float32 nearest to m >= 1 (round half to
\* even); 2^24 when the rounding carries into the next exponent.
Significand(m) ==
  LET e == Log2(m)
  IN IF e <= 23 THEN m * Pow2(23 - e)
     ELSE LET unit == Pow2(e - 23)
              q == m \div unit
              r == m % unit
              half == unit \div 2
          IN IF r > half \/ (r = half /\ q % 2 = 1) THEN q + 1 ELSE q

\* setFloat32 / Float32Array store: the bit pattern of the float32 nearest to v.
F32Bits(v) ==
  IF v = 0 THEN 0
  ELSE LET m == Abs(v)
           magnitude == (Log2(m) + 127) * Pow2(23) + (Significand(m) - Pow2(23))
       IN IF v < 0 THEN (magnitude - Pow2(30)) - Pow2(30) ELSE magnitude

\* getFloat32 / Float32Array load, for the patterns of integer values.
F32Val(w) ==
  LET magnitude == IF w < 0 THEN (w + Pow2(30)) + Pow2(30) ELSE w
      e == (magnitude \div Pow2(23)) - 127
      sig == Pow2(23) + (magnitude % Pow2(23))
      m == IF magnitude = 0 THEN 0
           ELSE IF e >= 23 THEN sig * Pow2(e - 23)
           ELSE sig \div Pow2(23 - e)
  IN IF w < 0 THEN -m ELSE m

\* setInt32 and setUint32 store ToInt32(v) and ToUint32(v): the same bit
\* pattern, v modulo 2^32, whose signed reading is v for a number of the model.
I32Bits(v) == v

U32Bits(v) == v

\* getInt32 reads the word as signed.
I32Val(w) == w

\* getUint32 reads the word as unsigned: w + 2^32 when bit 31 is set, which is
\* no number of the model; Set below is never given a negative number for an
\* unsigned field.
U32Val(w) == w

\* The word a component v of `field` is stored as.
Encode(field, v) ==
  IF IsFloat(field) THEN F32Bits(v)
  ELSE IF IsInt(field) THEN I32Bits(v)
  ELSE U32Bits(v)

\* The number a word of `field` reads as.
Decode(field, w) ==
  IF IsFloat(field) THEN F32Val(w)
  ELSE IF IsInt(field) THEN I32Val(w)
  ELSE U32Val(w)

\* ToIndex(offset) / ToIntegerOrInfinity(offset): NaN is 0.
ToIndex(offset) == IF offset = NaN THEN 0 ELSE offset

\* A JavaScript value handed to set: a number or a number[].
Number(v) == [kind |-> "number", items |-> <<v>>]

Array(vs) == [kind |-> "array", items |-> vs]

\* A typed array of the kind of `field` holding vs.  `shares` tells whether
\* its elements are bytes of the record's buffer, `first` the word of the
\* buffer its elements were taken from.
TypedArray(field, vs) ==
  [kind |-> IF IsFloat(field) THEN "Float32Array"
            ELSE IF IsInt(field) THEN "Int32Array" ELSE "Uint32Array",
   items |-> vs, shares |-> FALSE, first |-> 0]

\* new Float32Array(this.buffer, field.offset, field.componentCount), and
\* the same for Int32Array and Uint32Array: a view of the record's own bytes.
ViewOf(field, buf) ==
  [TypedArray(field,
              [k \in 1..field.componentCount |->
                 Decode(field, buf[(ToIndex(field.offset) \div 4) + k])])
   EXCEPT !.shares = TRUE, !.first = ToIndex(field.offset) \div 4]

\* Slice that hands out the view itself.
SliceSameBuffer(view) == view

\* view.slice(): a typed array with a buffer of its own and the same elements.
Slice(view) == [view EXCEPT !.shares = FALSE]

\* What set and get return or throw, and the buffer they leave.
Outcome(err, buf, value) == [err |-> err, buffer |-> buf, value |-> value]

\* WriteWords that also clears the word after the last one written.
WriteWordsSpill(buf, first, ws) ==
  [k \in 1..Len(buf) |->
     IF k > first /\ k <= first + Len(ws) THEN ws[k - first]
     ELSE IF k = first + Len(ws) + 1 THEN 0 ELSE buf[k]]

\* Words first+1 .. first+Len(ws) of buf replaced by ws.
WriteWords(buf, first, ws) ==
  [k \in 1..Len(buf) |->
     IF k > first /\ k <= first + Len(ws) THEN ws[k - first] ELSE buf[k]]

\* LengthFits that also takes fewer components than the field has.
LengthFitsOrShorter(values, field) == Len(values) <= field.componentCount

\* values.length !== field.componentCount is false.
LengthFits(values, field) == Len(values) = field.componentCount

\* Has that knows top-level fields only.
HasTopLevelOnly(fmap, key) == key \in DOMAIN fmap /\ Len(key) = 1

\* this.fieldMap.get(key) is not undefined.
Has(fmap, key) == key \in DOMAIN fmap

\* set(path, value), key = pathArray.join('.')
SetOutcome(buf, fmap, key, value) ==
  IF ~Has(fmap, key) THEN Outcome("UnknownField", buf, <<>>)
  ELSE
    LET field == fmap[key]
    IN IF field.componentCount = 1
       THEN IF value.kind # "number" THEN Outcome("TypeMismatch", buf, <<>>)
            \* DataView.setFloat32 / setInt32 / setUint32 (offset, value, true)
            ELSE IF ToIndex(field.offset) + 4 > 4 * Len(buf)
              THEN Outcome("RangeError", buf, <<>>)
            ELSE Outcome("none",
                         WriteWords(buf, ToIndex(field.offset) \div 4,
                                    <<Encode(field, value.items[1])>>),
                         <<>>)
       ELSE IF value.kind = "number" THEN Outcome("TypeMismatch", buf, <<>>)
            ELSE IF ~LengthFits(value.items, field)
              THEN Outcome("ComponentCountMismatch", buf, <<>>)
            \* float32View.set(values, field.offset / 4), and the other views
            ELSE IF Len(value.items) + (ToIndex(field.offset) \div 4) > Len(buf)
              THEN Outcome("RangeError", buf, <<>>)
            ELSE Outcome("none",
                         WriteWords(buf, ToIndex(field.offset) \div 4,
                                    [k \in 1..Len(value.items) |->
                                       Encode(field, value.items[k])]),
                         <<>>)

\* A value of a values tree that is an object or an array of objects: its
\* own enumerable properties, in the order they were inserted.
Object(entries) == [kind |-> "object", items |-> <<>>, entries |-> entries]

\* A Float32Array handed to set or setAll.
Float32Array(vs) == [kind |-> "Float32Array", items |-> vs]

\* /^\d+$/.test(key)
IsIndexKey(key) == \E i \in 1..Len(IndexNames) : IndexNames[i] = key

\* Object.entries(value): integer keys first, in ascending order, then the
\* other keys in insertion order.  An array without elements and a typed
\* array or numeric array are not enumerated here.
RECURSIVE IndexEntries(_, _)
IndexEntries(entries, i) ==
  IF i > Len(IndexNames) THEN <<>>
  ELSE SelectSeq(entries, LAMBDA e : e.key = IndexNames[i])
       \o IndexEntries(entries, i + 1)

Entries(value) ==
  IF value.kind # "object" THEN <<>>
  ELSE IndexEntries(value.entries, 1)
       \o SelectSeq(value.entries, LAMBDA e : ~IsIndexKey(e.key))

\* Array.isArray(value) && typeof value[0] === 'number'
IsNumericArray(value) == value.kind = "array" /\ Len(value.items) > 0

\* typeof value === 'object' && !isNumericArray && !(value instanceof
\* Float32Array) && !(value instanceof Int32Array) && !(value instanceof
\* Uint32Array)
IsSubTree(value) ==
  /\ value.kind # "number"
  /\ ~IsNumericArray(value)
  /\ value.kind \notin {"Float32Array", "Int32Array", "Uint32Array"}

\* [...path, key]
CurrentPath(path, key) == path \o <<(<<key>>)>>

RECURSIVE SetAllRecursive(_, _, _, _, _)
RECURSIVE SetEntry(_, _, _, _, _)
RECURSIVE AfterEntry(_, _, _, _, _)

\* _setAllRecursive(values, path): the loop over Object.entries(values), from
\* entry i on; a set that throws ends it.
SetAllRecursive(buf, fmap, entries, i, path) ==
  IF i > Len(entries) THEN Outcome("none", buf, <<>>)
  ELSE AfterEntry(fmap, entries, i, path,
                  SetEntry(buf, fmap, entries[i].key, entries[i].value,
                           CurrentPath(path, entries[i].key)))

\* _setAllRecursive: the body of the loop for one entry.
SetEntry(buf, fmap, key, value, currentPath) ==
  IF IsSubTree(value)
  THEN IF IsIndexKey(key)
       THEN SetAllRecursive(buf, fmap, Entries(value), 1, currentPath)
       ELSE IF Has(fmap, Join(currentPath))
         THEN SetOutcome(buf, fmap, Join(currentPath), value)
       ELSE SetAllRecursive(buf, fmap, Entries(value), 1, currentPath)
  ELSE SetOutcome(buf, fmap, Join(currentPath), value)

\* _setAllRecursive: the next entry, unless the body threw.
AfterEntry(fmap, entries, i, path, out) ==
  IF out.err # "none" THEN out
  ELSE SetAllRecursive(out.buffer, fmap, entries, i + 1, path)

\* setAll(values)
SetAllOutcome(buf, fmap, values) ==
  SetAllRecursive(buf, fmap, Entries(values), 1, <<>>)

\* get(path), key = pathArray.join('.')
GetOutcome(buf, fmap, key) ==
  IF ~Has(fmap, key) THEN Outcome("UnknownField", buf, <<>>)
  ELSE
    LET field == fmap[key]
    IN IF field.componentCount = 1
       \* DataView.getFloat32 / getInt32 / getUint32 (offset, true)
       THEN IF ToIndex(field.offset) + 4 > 4 * Len(buf)
            THEN Outcome("RangeError", buf, <<>>)
            ELSE Outcome("none", buf,
                         Number(Decode(field,
                                       buf[(ToIndex(field.offset) \div 4) + 1])))
       \* new Float32Array(this.buffer, offset, componentCount).slice(), ...
       ELSE IF ToIndex(field.offset) + 4 * field.componentCount > 4 * Len(buf)
            THEN Outcome("RangeError", buf, <<>>)
            ELSE Outcome("none", buf, Slice(ViewOf(field, buf)))

(* ----------------------------------------------------------------------- *)
(* Inputs                                                                  *)
(* ----------------------------------------------------------------------- *)

\* Fields of a primitive-only specification.
MaxPrims == 3

\* Fields of a nested specification or of an array element specification.
MaxInner == 2

\* Array lengths.
MaxLen == 2

\* Primitive fields before and after the composite field of a specification.
MaxPad == 1

SeqsUpTo(S, n) == UNION {[1..k -> S] : k \in 0..n}

AllTags == DOMAIN TYPES

InnerTags == {"f32", "vec2i", "vec3u"}

PadTags == {"f32", "vec2i", "vec3u"}

Prims(tags) == {Prim(t) : t \in tags}

\* Primitive-only nested specifications, the empty one included.
InnerLayouts == SeqsUpTo(Prims(InnerTags), MaxInner)

\* Fields of an element or nested specification: primitives, nested records
\* of at most one primitive, inline arrays of one-primitive elements.
MidSpecs ==
  Prims(InnerTags)
  \cup {Nested(l) : l \in {m \in InnerLayouts : Len(m) <= 1}}
  \cup {ArrayOf("inline", l, FALSE, MaxLen) : l \in {m \in InnerLayouts : Len(m) = 1}}

MidLayouts == SeqsUpTo(MidSpecs, MaxInner)

\* A compiled element was built by the constructor without an error.
CompositeSpecs ==
  {Nested(l) : l \in MidLayouts}
  \cup {ArrayOf("inline", l, FALSE, n) : l \in MidLayouts, n \in 1..MaxLen}
  \cup {ArrayOf("compiled", l, u, n) :
          l \in MidLayouts \ {<<>>}, u \in BOOLEAN, n \in 1..MaxLen}

PadLayouts == SeqsUpTo(Prims(PadTags), MaxPad)

\* The specifications handed to the constructor.
PrimLayouts == SeqsUpTo(Prims(AllTags), MaxPrims)

Layouts ==
  {pre \o <<x>> \o post : pre \in PadLayouts, x \in CompositeSpecs, post \in PadLayouts}

(* ----------------------------------------------------------------------- *)
(* State                                                                   *)
(* ----------------------------------------------------------------------- *)

VARIABLES
  pc,             \* "new" before the constructor ran, then "ready" or "threw"
  layout,         \* the constructor's arguments
  uniformBuffer,
  fields,         \* this.fields
  fieldMap,       \* this.fieldMap
  totalSize,      \* this.totalSize
  buffer,         \* this.buffer, as 32-bit words
  ret,            \* the last call: what it was given and what it returned or threw
  written,        \* history: key |-> the value of the last successful set of key
  calls,          \* history: the number of calls made that read or write bytes
  held,           \* the caller's: the last sequence a get returned
  cloned          \* the caller's: the last record a clone returned

\* The state of one RenderLoop, of the browser around it, and of the step
\* that is executing.
VARIABLES
  frametime,             \* this.frametime: #minFrameTime, #targetFrameTime, #maxFrameTime
  assigned,              \* history: the last assignment to a property of frametime
  paused,                \* this.#paused
  animFrameId,           \* this.#animFrameId; 0 for null and undefined
  prevStepTime,          \* this.#prevStepTime
  framesPending,         \* this.framesPending
  frameCount,            \* this.frameCount
  timeSinceLastRender,   \* this.timeSinceLastRender
  timeSinceFirstRender,  \* this.timeSinceFirstRender
  now,                   \* the browser's: performance.now()
  requests,              \* the browser's: the frame requests outstanding
  nextId,                \* the browser's: the next id requestAnimationFrame returns
  submitted,             \* the GPU queue's: onSubmittedWorkDone promises not yet resolved
  at,                    \* where the executing step is; "idle" when none is
  inLoop,                \* whether the executing step was called by a frame request
  halted                 \* history: how the last stop() returned, "no" after a start()

svars ==
  <<pc, layout, uniformBuffer, fields, fieldMap, totalSize, buffer, ret,
    written, calls, held, cloned>>

lvars ==
  <<frametime, assigned, paused, animFrameId, prevStepTime, framesPending,
    frameCount, timeSinceLastRender, timeSinceFirstRender, now, requests,
    nextId, submitted, at, inLoop, halted>>

vars == <<svars, lvars>>

\* No RenderLoop is constructed.
NoLoop ==
  /\ frametime = <<>>
  /\ assigned = <<>>
  /\ paused = TRUE
  /\ animFrameId = 0
  /\ prevStepTime = 0
  /\ framesPending = 0
  /\ frameCount = 0
  /\ timeSinceLastRender = 0
  /\ timeSinceFirstRender = 0
  /\ now = 0
  /\ requests = {}
  /\ nextId = 1
  /\ submitted = 0
  /\ at = "idle"
  /\ inLoop = FALSE
  /\ halted = "no"

\* arg is the shape of the value handed to set: its kind and its length.
NoCall ==
  [op |-> "none", key |-> <<>>, arg |-> <<>>, err |-> "none", value |-> <<>>]

\* No sequence returned yet.
NoHeld == [kind |-> "none", items |-> <<>>, shares |-> FALSE, first |-> 0]

\* The word an element v of a typed array of `kind` is stored as, and the
\* number a word reads as.
ElementBits(kind, v) ==
  IF kind = "Float32Array" THEN F32Bits(v)
  ELSE IF kind = "Int32Array" THEN I32Bits(v) ELSE U32Bits(v)

ElementVal(kind, w) ==
  IF kind = "Float32Array" THEN F32Val(w)
  ELSE IF kind = "Int32Array" THEN I32Val(w) ELSE U32Val(w)

\* What the caller's sequence h reads as when the record's buffer is buf.
Seen(h, buf) ==
  IF h.shares
  THEN [h EXCEPT !.items =
          [k \in 1..Len(h.items) |-> ElementVal(h.kind, buf[h.first + k])]]
  ELSE h

\* No clone made yet.
NoClone == [made |-> FALSE, record |-> <<>>, shares |-> FALSE]

\* What the clone c is when the original's buffer is buf: `shares` tells
\* whether the clone's buffer is the original's.
Mirror(c, buf) ==
  IF c.shares THEN [c EXCEPT !.record.buffer = buf] ELSE c

InitWith(family) ==
  /\ pc = "new"
  /\ layout \in family
  /\ uniformBuffer \in BOOLEAN
  /\ fields = <<>>
  /\ fieldMap = <<>>
  /\ totalSize = 0
  /\ buffer = <<>>
  /\ ret = NoCall
  /\ written = <<>>
  /\ calls = 0
  /\ held = NoHeld
  /\ cloned = NoClone
  /\ NoLoop

\* new WebGPUStruct(layout, {uniformBuffer})
Construct ==
  /\ pc = "new"
  /\ \E s \in {NewStruct(layout, uniformBuffer)} :
        /\ pc' = IF s.err = "none" THEN "ready" ELSE "threw"
        /\ fields' = s.fields
        /\ fieldMap' = s.fieldMap
        /\ totalSize' = s.totalSize
        /\ buffer' = s.buffer
        /\ ret' = [NoCall EXCEPT !.op = "new", !.err = s.err]
  /\ UNCHANGED lvars
  /\ UNCHANGED <<layout, uniformBuffer, written, calls, held, cloned>>

InitPrim == InitWith(PrimLayouts)

SpecPrim == InitPrim /\ [][Construct]_vars

InitLayout == InitWith(Layouts)

SpecLayout == InitLayout /\ [][Construct]_vars

\* Whether a specification holds an empty nested record at any depth.
RECURSIVE HasEmptyRecord(_)
HasEmptyRecord(l) ==
  \E i \in 1..Len(l) :
     \/ l[i].kind = "struct" /\ (l[i].layout = <<>> \/ HasEmptyRecord(l[i].layout))
     \/ l[i].kind = "array" /\ HasEmptyRecord(l[i].layout)

\* The same specifications without those that hold an empty nested record.
InitNonEmpty == InitWith({l \in Layouts : ~HasEmptyRecord(l)})

SpecNonEmpty == InitNonEmpty /\ [][Construct]_vars

(* ----------------------------------------------------------------------- *)
(* Accessor calls                                                          *)
(* ----------------------------------------------------------------------- *)

\* Accessor calls made on one record.
MaxCalls == 2

\* Numbers handed to set; 16777217 = 2^24 + 1 is no float32.
Numbers == {7, -42, 16777217}

\* The n-component sequence v, v+1, ...
VecOf(v, n) == [k \in 1..n |-> v + (k - 1)]

ArgLens == {2, 3, 4}

\* A number of the model's range for every component of an unsigned field.
Storable(fmap, key, value) ==
  key \in DOMAIN fmap /\ IsUint(fmap[key])
     => \A k \in 1..Len(value.items) : value.items[k] >= 0

\* The path of leaf f with its last segment replaced by a name no record has.
NoSuchMember(f) == [Join(f.path) EXCEPT ![Len(Join(f.path))] = "nope"]

\* The path of leaf f of a top-level array with the index arrayLength.
PastTheEnd(f) == [Join(f.path) EXCEPT ![2] = IndexStr(f.arrayLength)]

\* The paths handed to get and set: every leaf's path, every key of the
\* index, and a path that names nothing.
PathKeys ==
  {Join(fields[k].path) : k \in 1..Len(fields)} \cup DOMAIN fieldMap
  \cup {<<"nope">>}
  \cup {NoSuchMember(fields[k]) : k \in 1..Len(fields)}
  \cup {PastTheEnd(fields[k]) : k \in {j \in 1..Len(fields) : fields[j].isArray}}

Values ==
  {Number(v) : v \in Numbers} \cup {Array(VecOf(v, n)) : v \in Numbers, n \in ArgLens}

\* struct.set(path, value)
Set(key, value) ==
  /\ pc = "ready"
  /\ calls < MaxCalls
  /\ Storable(fieldMap, key, value)
  /\ \E out \in {SetOutcome(buffer, fieldMap, key, value)} :
        /\ buffer' = out.buffer
        /\ held' = Seen(held, out.buffer)
        /\ cloned' = Mirror(cloned, out.buffer)
        /\ ret' = [op |-> "set", key |-> key,
                   arg |-> <<value.kind, Len(value.items)>>,
                   err |-> out.err, value |-> <<>>]
        /\ written' =
             IF out.err = "none"
             THEN [k \in (DOMAIN written) \cup {key} |->
                     IF k = key THEN value.items ELSE written[k]]
             ELSE written
  /\ calls' = calls + 1
  /\ UNCHANGED lvars
  /\ UNCHANGED <<pc, layout, uniformBuffer, fields, fieldMap, totalSize>>

\* struct.get(path)
Get(key) ==
  /\ pc = "ready"
  /\ calls < MaxCalls
  /\ \E out \in {GetOutcome(buffer, fieldMap, key)} :
        /\ ret' = [op |-> "get", key |-> key, arg |-> <<>>, err |-> out.err,
                   value |-> out.value]
        /\ held' = IF out.err = "none" /\ out.value.kind # "number"
                    THEN out.value ELSE held
  /\ calls' = calls + 1
  /\ UNCHANGED lvars
  /\ UNCHANGED <<pc, layout, uniformBuffer, fields, fieldMap, totalSize,
                 buffer, written, cloned>>

\* The caller stores v in element k of the sequence a get returned.
Mutate(k, v) ==
  /\ pc = "ready"
  /\ calls < MaxCalls
  /\ k \in 1..Len(held.items)
  /\ held.kind = "Uint32Array" => v >= 0
  /\ held' = [held EXCEPT
               !.items[k] = ElementVal(held.kind, ElementBits(held.kind, v))]
  /\ buffer' = IF held.shares
               THEN WriteWords(buffer, held.first + k - 1,
                               <<ElementBits(held.kind, v)>>)
               ELSE buffer
  /\ cloned' = Mirror(cloned, buffer')
  /\ ret' = [NoCall EXCEPT !.op = "mutate"]
  /\ calls' = calls + 1
  /\ UNCHANGED lvars
  /\ UNCHANGED <<pc, layout, uniformBuffer, fields, fieldMap, totalSize, written>>

\* float32View.fill(v): every element of the view over the whole buffer.
Fill(buf, v) == [k \in 1..Len(buf) |-> F32Bits(v)]

\* struct.reset()
Reset ==
  /\ pc = "ready"
  /\ calls < MaxCalls
  /\ buffer' = Fill(buffer, 0)
  /\ held' = Seen(held, Fill(buffer, 0))
  /\ cloned' = Mirror(cloned, Fill(buffer, 0))
  /\ ret' = [NoCall EXCEPT !.op = "reset"]
  /\ calls' = calls + 1
  /\ UNCHANGED lvars
  /\ UNCHANGED <<pc, layout, uniformBuffer, fields, fieldMap, totalSize, written>>

\* CloneOf whose buffer is the buffer of the original.
CloneOfSameBuffer(s, buf) ==
  [made |-> TRUE, record |-> [s EXCEPT !.buffer = buf], shares |-> TRUE]

\* cloned.float32View.set(this.float32View) on the record s the constructor
\* built: a record with a buffer of its own that holds the words of buf.
CloneOf(s, buf) ==
  [made |-> TRUE, record |-> [s EXCEPT !.buffer = WriteWords(@, 0, buf)],
   shares |-> FALSE]

\* struct.clone(); the caller keeps the clone made last.
Clone ==
  /\ pc = "ready"
  /\ cloned' = CloneOf(NewStruct(layout, uniformBuffer), buffer)
  /\ ret' = [NoCall EXCEPT !.op = "clone"]
  /\ UNCHANGED lvars
  /\ UNCHANGED <<pc, layout, uniformBuffer, fields, fieldMap, totalSize,
                 buffer, written, calls, held>>

\* A call on the clone leaves it with the buffer buf.
OnClone(op, err, buf) ==
  /\ cloned' = [cloned EXCEPT !.record.buffer = buf]
  /\ buffer' = IF cloned.shares THEN buf ELSE buffer
  /\ held' = Seen(held, IF cloned.shares THEN buf ELSE buffer)
  /\ ret' = [NoCall EXCEPT !.op = op, !.err = err]
  /\ calls' = calls + 1
  /\ UNCHANGED lvars
  /\ UNCHANGED <<pc, layout, uniformBuffer, fields, fieldMap, totalSize, written>>

\* cloned.set(path, value)
CloneSet(key, value) ==
  /\ cloned.made
  /\ calls < MaxCalls
  /\ Storable(cloned.record.fieldMap, key, value)
  /\ \E out \in {SetOutcome(cloned.record.buffer, cloned.record.fieldMap,
                             key, value)} :
        OnClone("clone.set", out.err, out.buffer)

\* cloned.setAll(values)
CloneSetAll(values) ==
  /\ cloned.made
  /\ calls < MaxCalls
  /\ \E out \in {SetAllOutcome(cloned.record.buffer, cloned.record.fieldMap,
                                values)} :
        OnClone("clone.setAll", out.err, out.buffer)

\* cloned.reset()
CloneReset ==
  /\ cloned.made
  /\ calls < MaxCalls
  /\ OnClone("clone.reset", "none", Fill(cloned.record.buffer, 0))

\* new Uint8Array(target).set(source, targetOffset), in words: a RangeError
\* when the source does not fit behind targetOffset.
CopyOutcome(buf, target, targetOffset) ==
  IF Len(buf) + targetOffset > Len(target)
  THEN Outcome("RangeError", target, <<>>)
  ELSE Outcome("none", WriteWords(target, targetOffset, buf), <<>>)

\* struct.copyTo(target, targetOffset): the target is the record's own
\* buffer (own) or a zeroed buffer of n words.
CopyTo(own, n, targetOffset) ==
  /\ pc = "ready"
  /\ calls < MaxCalls
  /\ \E out \in {CopyOutcome(buffer, IF own THEN buffer ELSE [k \in 1..n |-> 0],
                              targetOffset)} :
        /\ buffer' = IF own THEN out.buffer ELSE buffer
        /\ held' = Seen(held, IF own THEN out.buffer ELSE buffer)
        /\ cloned' = Mirror(cloned, IF own THEN out.buffer ELSE buffer)
        /\ ret' = [NoCall EXCEPT !.op = "copyTo", !.err = out.err,
                                 !.value = out.buffer]
  /\ calls' = calls + 1
  /\ UNCHANGED lvars
  /\ UNCHANGED <<pc, layout, uniformBuffer, fields, fieldMap, totalSize, written>>

\* GetLayoutInfo that hands the descriptors out and forgets them.
GetLayoutInfoMoving ==
  /\ pc = "ready"
  /\ calls < MaxCalls
  /\ ret' = [NoCall EXCEPT !.op = "getLayoutInfo", !.value = fields]
  /\ fields' = <<>>
  /\ calls' = calls + 1
  /\ UNCHANGED lvars
  /\ UNCHANGED <<pc, layout, uniformBuffer, fieldMap, totalSize, buffer,
                 written, held, cloned>>

\* struct.getLayoutInfo(): this.fields.map(f => ({ ...f }))
GetLayoutInfo ==
  /\ pc = "ready"
  /\ calls < MaxCalls
  /\ ret' = [NoCall EXCEPT !.op = "getLayoutInfo",
                           !.value = [k \in 1..Len(fields) |-> fields[k]]]
  /\ calls' = calls + 1
  /\ UNCHANGED lvars
  /\ UNCHANGED <<pc, layout, uniformBuffer, fields, fieldMap, totalSize,
                 buffer, written, held, cloned>>

\* Leaves of a values tree handed to setAll.
MaxLeaves == 2

\* The values at the ends of a values tree: a number, a numeric array, a typed
\* array, an object without properties and an array without elements.
TreeValues ==
  {Number(7), Array(VecOf(7, 2)), Float32Array(VecOf(7, 3)), Object(<<>>),
   Array(<<>>)}

\* The object that holds `entries` and, under the keys of `key` one below the
\* other, `value`.
RECURSIVE Insert(_, _, _)
Insert(entries, key, value) ==
  IF Len(key) = 1 THEN Append(entries, [key |-> key[1], value |-> value])
  ELSE IF \E i \in 1..Len(entries) : entries[i].key = key[1]
    THEN [i \in 1..Len(entries) |->
            IF entries[i].key = key[1]
            THEN [entries[i] EXCEPT
                    !.value = Object(Insert(@.entries, Tail(key), value))]
            ELSE entries[i]]
  ELSE Append(entries,
              [key |-> key[1], value |-> Object(Insert(<<>>, Tail(key), value))])

RECURSIVE TreeOf(_)
TreeOf(ends) ==
  IF ends = <<>> THEN <<>>
  ELSE Insert(TreeOf(SubSeq(ends, 1, Len(ends) - 1)),
              ends[Len(ends)].key, ends[Len(ends)].value)

IsPrefix(a, b) == Len(a) <= Len(b) /\ SubSeq(b, 1, Len(a)) = a

\* The paths of a values tree: every leaf's path and a path that names
\* nothing.
TreeKeys == {Join(fields[k].path) : k \in 1..Len(fields)} \cup {<<"nope">>}

\* The values trees of up to n values of `values`, each under a path of
\* TreeKeys, no path leading through another.
TreesOf(values, n) ==
  {Object(TreeOf(ends)) :
     ends \in {e \in UNION {[1..m -> [key : TreeKeys, value : values]] :
                              m \in 1..n} :
                 \A i, j \in 1..Len(e) :
                    i # j => ~IsPrefix(e[i].key, e[j].key)}}

\* The values trees handed to setAll.
Trees == TreesOf(TreeValues, MaxLeaves)

\* struct.setAll(values)
SetAll(values) ==
  /\ pc = "ready"
  /\ calls < MaxCalls
  /\ \E out \in {SetAllOutcome(buffer, fieldMap, values)} :
        /\ buffer' = out.buffer
        /\ held' = Seen(held, out.buffer)
        /\ cloned' = Mirror(cloned, out.buffer)
        /\ ret' = [op |-> "setAll", key |-> <<>>, arg |-> values,
                   err |-> out.err, value |-> <<>>]
  /\ calls' = calls + 1
  /\ UNCHANGED lvars
  /\ UNCHANGED <<pc, layout, uniformBuffer, fields, fieldMap, totalSize, written>>

\* The specifications the accessor calls are made on.
AccTags == {"f32", "i32", "u32", "vec2i", "vec3u", "mat2x2f"}

AccSpecs ==
  Prims(AccTags)
  \cup {Nested(<<>>), Nested(<<Prim("vec2i"), Prim("f32")>>),
        ArrayOf("inline", <<Nested(<<Prim("f32")>>), Nested(<<Prim("vec2i")>>)>>,
                FALSE, MaxLen),
        ArrayOf("compiled", <<Prim("vec3u"), Prim("i32")>>, TRUE, MaxLen)}

AccLayouts ==
  {pre \o <<x>> : pre \in SeqsUpTo(Prims({"f32", "vec2i"}), 1), x \in AccSpecs}

Init == InitWith(AccLayouts)

Next ==
  \/ Construct
  \/ \E key \in PathKeys, value \in Values : Set(key, value)
  \/ \E key \in PathKeys : Get(key)

Spec == Init /\ [][Next]_vars

\* The specifications the whole interface is called on: a vector alone, and
\* nested records and arrays alone and after a scalar.
ApiSpecs ==
  {Nested(<<>>), Nested(<<Prim("vec2i"), Prim("f32")>>),
   ArrayOf("inline", <<Nested(<<Prim("f32")>>), Nested(<<Prim("vec2i")>>)>>,
           FALSE, MaxLen),
   ArrayOf("compiled", <<Prim("vec3u"), Prim("i32")>>, TRUE, MaxLen)}

\* An array whose element holds a nested record with a member "b" and,
\* under the key "b", an array.
ArrayInElement ==
  ArrayOf("inline",
          <<Nested(<<Prim("f32"), Prim("f32")>>),
            ArrayOf("inline", <<Prim("f32")>>, FALSE, 1)>>,
          FALSE, 1)

ApiLayouts ==
  {<<Prim("vec3f")>>, <<ArrayInElement>>}
  \cup {pre \o <<x>> : pre \in SeqsUpTo({Prim("f32")}, 1), x \in ApiSpecs}

\* The values handed to set there.
ApiValues == {Number(7), Array(VecOf(7, 2)), Array(VecOf(7, 3))}

InitApi == InitWith(ApiLayouts)

\* Every call of the interface.
NextApi ==
  \/ Construct
  \/ \E key \in PathKeys, value \in ApiValues : Set(key, value)
  \/ \E key \in PathKeys : Get(key)
  \/ \E k \in 1..4, v \in Numbers : Mutate(k, v)
  \/ Reset
  \/ \E values \in TreesOf({Number(7), Object(<<>>)}, 1) : SetAll(values)
  \/ Clone
  \/ \E own \in BOOLEAN, n \in {0, Len(buffer) + 1}, targetOffset \in 0..1 :
        CopyTo(own, n, targetOffset)
  \/ GetLayoutInfo

SpecApi == InitApi /\ [][NextApi]_vars

\* A record and its clone: the calls that write, on either.
NextClone ==
  \/ Construct
  \/ \E key \in PathKeys, value \in ApiValues : Set(key, value)
  \/ \E values \in TreesOf({Number(7), Object(<<>>)}, 1) : SetAll(values)
  \/ Reset
  \/ Clone
  \/ \E key \in PathKeys, value \in ApiValues : CloneSet(key, value)
  \/ \E values \in TreesOf({Number(7), Object(<<>>)}, 1) : CloneSetAll(values)
  \/ CloneReset

SpecClone == InitApi /\ [][NextClone]_vars

\* Specifications the constructor may reject: tags outside the type table
\* ("vec5f", and "toString", a name every object inherits), arrays of
\* every length from -1 on and of every kind of element, at the top level,
\* in a nested record and in an inline element.
BadTags == {"vec5f", "toString"}

Lengths == (-1)..MaxLen

ErrSpecs ==
  Prims(BadTags)
  \cup {Nested(<<Prim(t)>>) : t \in BadTags \cup {"f32"}}
  \cup {ArrayOf("inline", <<Prim(t)>>, FALSE, n) :
          t \in BadTags \cup {"f32"}, n \in Lengths}
  \cup {ArrayOf("inline", l, FALSE, n) :
          l \in {<<>>, <<Nested(<<>>)>>}, n \in Lengths}
  \cup {ArrayOf("compiled", <<Prim("vec2i")>>, u, n) :
          u \in BOOLEAN, n \in Lengths}
  \cup {TagArray(t, n) : t \in {"f32", "vec3u", "vec5f"}, n \in Lengths}
  \cup {Nested(<<ArrayOf("inline", <<Prim("f32")>>, FALSE, n)>>) : n \in (-1)..1}
  \cup {ArrayOf("inline", <<ArrayOf("inline", <<Prim("f32")>>, FALSE, n)>>,
                 FALSE, 1) : n \in (-1)..1}
  \cup {Nested(<<TagArray("f32", 1)>>),
        ArrayOf("inline", <<TagArray("f32", 1)>>, FALSE, 1)}

\* Two rejected fields in one specification.
MixedSpecs ==
  {Prim("vec5f"), ArrayOf("inline", <<Prim("f32")>>, FALSE, 0),
   TagArray("f32", 1), ArrayOf("inline", <<>>, FALSE, 1)}

ErrLayouts ==
  {<<>>}
  \cup {pre \o <<x>> \o post :
          pre \in SeqsUpTo({Prim("f32")}, 1), x \in ErrSpecs,
          post \in SeqsUpTo({Prim("f32")}, 1)}
  \cup {<<x, y>> : x \in MixedSpecs, y \in MixedSpecs}

InitErr == InitWith(ErrLayouts)

SpecErr == InitErr /\ [][Construct]_vars

\* setAll with every tree of Trees, as the last call on a record that saw
\* sets only.
NextSetAll ==
  \/ Construct
  \/ ret.op # "setAll" /\ \E key \in PathKeys, value \in ApiValues : Set(key, value)
  \/ ret.op # "setAll" /\ \E values \in Trees : SetAll(values)

SpecSetAll == InitApi /\ [][NextSetAll]_vars

(* ----------------------------------------------------------------------- *)
(* Properties of the compiled layout                                       *)
(* ----------------------------------------------------------------------- *)

\* x is a non-negative integer multiple of a.
IsMultipleOf(x, a) == IsFinite(x) /\ a > 0 /\ x % a = 0

\* The smallest multiple of a that is >= x; x itself when a = 0.
RoundUp(x, a) ==
  IF a <= 0 \/ ~IsFinite(x) THEN x
  ELSE CHOOSE m \in x..(x + a - 1) : m % a = 0

\* The largest alignment among leaves; 0 when there is none.
RECURSIVE MaxLeafAlignment(_)
MaxLeafAlignment(fs) ==
  IF fs = <<>> THEN 0
  ELSE LET rest == MaxLeafAlignment(Tail(fs))
       IN IF Head(fs).alignment >= rest THEN Head(fs).alignment ELSE rest

\* C1: in every compiled record, every leaf's offset is a multiple of the
\* leaf's alignment.
C1_OffsetsAligned ==
  pc = "ready" =>
    \A k \in 1..Len(fields) : IsMultipleOf(fields[k].offset, fields[k].alignment)

\* C1 holds of every record whose specification holds no empty nested record.
C1_AlignedWithoutEmptyRecords ==
  pc = "ready" /\ ~HasEmptyRecord(layout) =>
    \A k \in 1..Len(fields) : IsMultipleOf(fields[k].offset, fields[k].alignment)

\* The byte ranges of leaves f and g do not intersect.
Disjoint(f, g) ==
  /\ IsFinite(f.offset) /\ IsFinite(g.offset)
  /\ (f.offset + f.size <= g.offset \/ g.offset + g.size <= f.offset)

\* C2: in every compiled record the byte ranges of two distinct leaves are
\* disjoint, and consecutive leaves of the field list are in ascending order:
\* offset[i] + size[i] <= offset[i+1].
C2_NoOverlap ==
  pc = "ready" =>
    /\ \A i, j \in 1..Len(fields) : i # j => Disjoint(fields[i], fields[j])
    /\ \A i \in 1..(Len(fields) - 1) :
         /\ IsFinite(fields[i].offset) /\ IsFinite(fields[i + 1].offset)
         /\ fields[i].offset + fields[i].size <= fields[i + 1].offset

\* C2 holds of every record whose specification holds no empty nested record.
C2_NoOverlapWithoutEmptyRecords ==
  ~HasEmptyRecord(layout) => C2_NoOverlap

\* C3: a primitive-only specification is laid out in declaration order with
\* minimal padding: one leaf per field, the first at offset 0, each later one
\* at the smallest multiple of its alignment that is >= the end of the one
\* before; {a: f32, b: vec3f} gives offsets 0 and 16 and totalSize 32.
C3_PrimitiveLayout ==
  pc = "ready" /\ (\A i \in 1..Len(layout) : layout[i].kind = "prim") =>
    /\ Len(fields) = Len(layout)
    /\ \A i \in 1..Len(layout) :
         /\ fields[i].type = layout[i].type
         /\ fields[i].path = <<(<<KeyAt(i)>>)>>
         /\ fields[i].size = TYPES[layout[i].type][1]
         /\ fields[i].offset =
              IF i = 1 THEN 0
              ELSE RoundUp(fields[i - 1].offset + fields[i - 1].size,
                           TYPES[layout[i].type][2])
    /\ (layout = <<Prim("f32"), Prim("vec3f")>> /\ ~uniformBuffer
          => fields[1].offset = 0 /\ fields[2].offset = 16 /\ totalSize = 32)

\* C3 witness: {a: f32, b: vec3f} compiled, b padded from 4 to 16.
C3_Witness ==
  /\ pc = "ready"
  /\ layout = <<Prim("f32"), Prim("vec3f")>>
  /\ ~uniformBuffer
  /\ Len(fields) = 2
  /\ fields[2].offset = 16

\* C4: totalSize is a multiple of the largest member alignment; with
\* uniformBuffer it is also a multiple of 16 and at least 16.
C4_TotalSizeAligned ==
  pc = "ready" =>
    /\ IsMultipleOf(totalSize, MaxLeafAlignment(fields))
    /\ uniformBuffer => (IsMultipleOf(totalSize, 16) /\ totalSize >= 16)

\* C4 holds of every record whose specification holds no empty nested record.
C4_AlignedWithoutEmptyRecords ==
  ~HasEmptyRecord(layout) => C4_TotalSizeAligned

\* The offset _computeLayout carries when it reaches entry i of this.layout
\* (i = Len(layout) + 1: when the loop ends).
RunningOffset(i) == LayoutLoop(SubSeq(layout, 1, i - 1), 1, NoFields).nextOffset

\* The leaves of the record that entry i of this.layout produced.
LeavesOf(i) == SelectSeq(fields, LAMBDA f : f.path[1] = <<KeyAt(i)>>)

Max(a, b) == IF a >= b THEN a ELSE b

\* C5: a nested record is laid out from local offset 0, its size is its
\* extent rounded up to its own largest member alignment, the parent's offset
\* is rounded up to that alignment to give the base, every nested leaf is at
\* base + its local offset, and the parent's offset advances to base + size.
C5_NestedRecord ==
  pc = "ready" =>
    \A i \in 1..Len(layout) : layout[i].kind = "struct" =>
      LET before == RunningOffset(i)
          local == NestedLoop(layout[i].layout, 1, NoFields, <<(<<KeyAt(i)>>)>>)
          align == MaxLeafAlignment(local.fields)
          size == RoundUp(local.nextOffset, align)
          base == RoundUp(before, align)
          mine == LeavesOf(i)
      IN /\ IsFinite(before) /\ IsFinite(local.nextOffset)
         /\ Len(mine) = Len(local.fields)
         /\ \A k \in 1..Len(mine) :
              /\ IsFinite(local.fields[k].offset)
              /\ mine[k].offset = base + local.fields[k].offset
         /\ RunningOffset(i + 1) = base + size

\* C5 holds of every record whose specification holds no empty nested record.
C5_NestedWithoutEmptyRecords ==
  ~HasEmptyRecord(layout) => C5_NestedRecord

\* The element record of the array at entry i of this.layout.
ElementStruct(i) ==
  NewStruct(layout[i].layout,
            IF layout[i].elem = "compiled" THEN layout[i].uniform ELSE FALSE)

\* C6: an array of structured elements starts at the parent's offset rounded
\* up to the element's alignment (the largest alignment among the element's
\* leaves), its stride is max(elementSize, 16) rounded up to that alignment,
\* and corresponding leaves of consecutive elements are one stride apart:
\* at least 16, at least elementSize, a multiple of the element's alignment.
C6_ArrayStride ==
  pc = "ready" =>
    \A i \in 1..Len(layout) : layout[i].kind = "array" =>
      LET before == RunningOffset(i)
          element == ElementStruct(i)
          n == Len(element.fields)
          align == MaxLeafAlignment(element.fields)
          start == RoundUp(before, align)
          stride == RoundUp(Max(element.totalSize, 16), align)
          mine == LeavesOf(i)
      IN /\ IsFinite(before) /\ IsFinite(element.totalSize)
         /\ Len(mine) = n * layout[i].length
         /\ stride >= 16 /\ stride >= element.totalSize
         /\ IsMultipleOf(stride, align)
         /\ \A e \in 0..(layout[i].length - 1), k \in 1..n :
              LET leaf == mine[e * n + k]
              IN /\ leaf.arrayStride = stride
                 /\ IsFinite(leaf.offset)
                 /\ e = 0 => leaf.offset = start + element.fields[k].offset
                 /\ e > 0 => leaf.offset - mine[(e - 1) * n + k].offset = stride

\* C6 holds of every record whose specification holds no empty nested record.
C6_StrideWithoutEmptyRecords ==
  ~HasEmptyRecord(layout) => C6_ArrayStride

\* C7: element e of an array contributes, for every leaf of the element
\* layout, a leaf at arrayStart + e * arrayStride + the element leaf's offset
\* whose path is the array's path, the index, then every segment of the
\* element leaf's path; the parent's offset advances by length * arrayStride.
C7_ArrayReplication ==
  pc = "ready" =>
    \A i \in 1..Len(layout) : layout[i].kind = "array" =>
      LET element == ElementStruct(i)
          n == Len(element.fields)
          align == MaxLeafAlignment(element.fields)
          start == RoundUp(RunningOffset(i), align)
          stride == RoundUp(Max(element.totalSize, 16), align)
          mine == LeavesOf(i)
      IN /\ Len(mine) = n * layout[i].length
         /\ \A e \in 0..(layout[i].length - 1), k \in 1..n :
              LET leaf == mine[e * n + k]
              IN /\ leaf.offset = start + e * stride + element.fields[k].offset
                 /\ leaf.path = <<(<<KeyAt(i)>>), (<<IndexStr(e)>>)>>
                                \o element.fields[k].path
         /\ RunningOffset(i + 1) = start + layout[i].length * stride

\* C8: every field descriptor is the value of the path index under its
\* dot-joined path, and no two field descriptors have the same joined path.
C8_IndexComplete ==
  pc = "ready" =>
    /\ \A k \in 1..Len(fields) :
         /\ Join(fields[k].path) \in DOMAIN fieldMap
         /\ fieldMap[Join(fields[k].path)] = fields[k]
    /\ \A i, j \in 1..Len(fields) :
         i # j => Join(fields[i].path) # Join(fields[j].path)
    /\ Cardinality(DOMAIN fieldMap) = Len(fields)

(* ----------------------------------------------------------------------- *)
(* Properties of the accessors                                             *)
(* ----------------------------------------------------------------------- *)

\* x is v to within the precision of a 32-bit float (a relative error of at
\* most 2^-24).
CloseTo(x, v) == Abs(x - v) <= Abs(v) \div Pow2(24)

\* The value handed to the last call has the shape of leaf f: a number for one
\* component, a sequence of componentCount numbers otherwise.
ArgFits(f) ==
  IF f.componentCount = 1 THEN ret.arg = <<"number", 1>>
  ELSE ret.arg = <<"array", f.componentCount>>

\* get(key) returns the components vs: exactly for an integer field, to
\* float precision for a float field.
GetReturns(key, vs) ==
  LET out == GetOutcome(buffer, fieldMap, key)
  IN /\ out.err = "none"
     /\ Len(out.value.items) = Len(vs)
     /\ \A c \in 1..Len(vs) :
          IF IsFloat(fieldMap[key]) THEN CloseTo(out.value.items[c], vs[c])
          ELSE out.value.items[c] = vs[c]

\* C9: for every leaf and every value of the leaf's shape, set(path, v)
\* succeeds and a get(path) right after it returns v.
C9_RoundTrip ==
  \A k \in 1..Len(fields) :
    ret.op = "set" /\ ret.key = Join(fields[k].path) /\ ArgFits(fields[k]) =>
      /\ ret.err = "none"
      /\ ret.key \in DOMAIN written
      /\ GetReturns(ret.key, written[ret.key])

\* C9 holds of every leaf that the path index holds, in a record whose
\* specification holds no empty nested record.
C9_RoundTripOfIndexedLeaves ==
  \A k \in 1..Len(fields) :
    /\ ret.op = "set" /\ ret.key = Join(fields[k].path) /\ ArgFits(fields[k])
    /\ fieldMap[ret.key] = fields[k] /\ ~HasEmptyRecord(layout)
    => /\ ret.err = "none"
       /\ ret.key \in DOMAIN written
       /\ GetReturns(ret.key, written[ret.key])

\* What a field reads as after the components vs were stored in it.
Stored(field, vs) == [c \in 1..Len(vs) |-> Decode(field, Encode(field, vs[c]))]

Zeros(n) == [c \in 1..n |-> 0]

\* Word w of the buffer (1-based) belongs to the field of key.
Covers(key, w) ==
  LET first == ToIndex(fieldMap[key].offset) \div 4
  IN w > first /\ w <= first + (fieldMap[key].size \div 4)

\* C10: after one or more successful set calls on a record, get(p) returns,
\* for every path p of the index, the value last set at p as the field's type
\* holds it, or zero when p was never set; and every word outside the fields
\* that were set is as the constructor left it.
C10_SetFrame ==
  pc = "ready" /\ DOMAIN written # {} =>
    /\ \A key \in DOMAIN fieldMap :
         LET out == GetOutcome(buffer, fieldMap, key)
         IN /\ out.err = "none"
            /\ out.value.items =
                 IF key \in DOMAIN written
                 THEN Stored(fieldMap[key], written[key])
                 ELSE Zeros(fieldMap[key].componentCount)
    /\ \A w \in 1..Len(buffer) :
         (\A key \in DOMAIN written : ~Covers(key, w)) => buffer[w] = 0

\* C10 witness: two fields of one record were set, the second after the first.
C10_Witness ==
  /\ pc = "ready"
  /\ Cardinality(DOMAIN written) = 2
  /\ \E key \in DOMAIN written : ret.op = "set" /\ ret.err = "none" /\ ret.key = key
  /\ \E key \in DOMAIN fieldMap : key \notin DOMAIN written

(* ----------------------------------------------------------------------- *)
(* Properties of the whole interface                                       *)
(* ----------------------------------------------------------------------- *)

\* C11: the sequence get returns for a vector or matrix field is a copy: a
\* store into it by the caller changes no byte of the record's buffer, and no
\* later set, setAll or reset of the record changes what it holds.
C11_GetReturnsCopy ==
  [][/\ ret'.op = "mutate" => buffer' = buffer
     /\ ret'.op \in {"set", "setAll", "reset"} => held' = held]_vars

\* C11 witness: the caller changed an element of a returned sequence, which
\* now differs from the bytes of the field it was read from.
C11_Witness ==
  /\ ret.op = "mutate"
  /\ held.items # Seen([held EXCEPT !.shares = TRUE], buffer).items

\* C12: get or set with a path that the path index does not hold raises
\* UnknownField, a path the index holds never does, and the call that raised
\* it changed nothing: not the buffer, not the layout, not what the caller
\* holds.
C12_UnknownField ==
  [][ret'.op \in {"get", "set"} =>
       /\ ret'.err = "UnknownField" <=> ret'.key \notin DOMAIN fieldMap
       /\ ret'.err = "UnknownField" =>
            UNCHANGED <<pc, layout, uniformBuffer, fields, fieldMap,
                        totalSize, buffer, written, held>>]_vars

\* C12 witness: after a successful set, a get with an array index past the
\* end raised UnknownField.
C12_Witness ==
  /\ ret.op = "get" /\ ret.err = "UnknownField"
  /\ \E k \in 1..Len(fields) : fields[k].isArray /\ ret.key = PastTheEnd(fields[k])
  /\ DOMAIN written # {}

\* C13: a set on a field of the index succeeds only with a number for a
\* one-component field and a sequence of exactly componentCount numbers
\* otherwise; a number for a sequence or a sequence for a number raises
\* TypeMismatch, a sequence of another length raises ComponentCountMismatch,
\* and neither changes a byte of the buffer.
C13_SetChecksShape ==
  [][ret'.op = "set" /\ ret'.key \in DOMAIN fieldMap =>
       LET count == fieldMap[ret'.key].componentCount
           kind == ret'.arg[1]
           length == ret'.arg[2]
       IN /\ ret'.err = "none" =>
               IF count = 1 THEN kind = "number"
               ELSE kind = "array" /\ length = count
          /\ (count = 1 /\ kind # "number") \/ (count > 1 /\ kind = "number")
               => ret'.err = "TypeMismatch"
          /\ count > 1 /\ kind = "array" /\ length # count
               => ret'.err = "ComponentCountMismatch"
          /\ ret'.err \in {"TypeMismatch", "ComponentCountMismatch"}
               => buffer' = buffer]_vars

\* C13 witness: a sequence of the wrong length was refused on a record that
\* holds values set before.
C13_Witness ==
  /\ ret.op = "set" /\ ret.err = "ComponentCountMismatch"
  /\ \E w \in 1..Len(buffer) : buffer[w] # 0

\* The ends of a values tree in traversal order, each with its accumulated
\* path joined: the values that are no sub-tree, and the sub-trees without
\* entries.
RECURSIVE TreeEnds(_, _)
RECURSIVE EndsFrom(_, _, _)
TreeEnds(value, path) ==
  IF IsSubTree(value) /\ Entries(value) # <<>>
  THEN EndsFrom(Entries(value), 1, path)
  ELSE <<[key |-> Join(path), value |-> value]>>

EndsFrom(entries, i, path) ==
  IF i > Len(entries) THEN <<>>
  ELSE TreeEnds(entries[i].value, path \o <<(<<entries[i].key>>)>>)
       \o EndsFrom(entries, i + 1, path)

\* The buffer after set(ends[i].key, ends[i].value) for i, i+1, ... in turn,
\* up to the first set that throws.
RECURSIVE SetEach(_, _, _)
SetEach(buf, ends, i) ==
  IF i > Len(ends) THEN buf
  ELSE LET out == SetOutcome(buf, fieldMap, ends[i].key, ends[i].value)
       IN IF out.err # "none" THEN buf ELSE SetEach(out.buffer, ends, i + 1)

\* Every end of the tree is a number, a numeric array or a typed array at the
\* path of a field.
LeavesAtFields(tree) ==
  LET ends == EndsFrom(Entries(tree), 1, <<>>)
  IN \A i \in 1..Len(ends) :
       ~IsSubTree(ends[i].value) /\ ends[i].key \in DOMAIN fieldMap

\* setAll(tree) leaves the buffer as the sets of the tree's leaves, one after
\* the other in traversal order, leave it, and no word outside the fields of
\* those leaves changes.
SetAllAsSets(tree) ==
  LET ends == EndsFrom(Entries(tree), 1, <<>>)
  IN /\ buffer' = SetEach(buffer, ends, 1)
     /\ \A w \in 1..Len(buffer) :
          (\A i \in 1..Len(ends) : ~Covers(ends[i].key, w))
            => buffer'[w] = buffer[w]

\* C14: for a values tree whose leaves all sit at paths of fields, setAll
\* leaves the buffer identical to one set per leaf in traversal order, and
\* fields the tree does not mention keep their bytes.
C14_SetAllAsSets ==
  [][ret'.op = "setAll" /\ LeavesAtFields(ret'.arg) => SetAllAsSets(ret'.arg)]_vars

\* No key of the path index continues to another key of the index.
NoPathThroughAField ==
  \A j, k \in DOMAIN fieldMap : IsPrefix(j, k) => j = k

\* C14 holds of every record in which no path of a field leads through the
\* path of another field.
C14_SetAllAsSetsOfDistinctPaths ==
  [][ret'.op = "setAll" /\ LeavesAtFields(ret'.arg) /\ NoPathThroughAField
       => SetAllAsSets(ret'.arg)]_vars

\* C15: setAll returns normally only if every end of the values tree is a
\* value at the path of a field: an entry that names no field, were its value
\* an object without properties or an array without elements, makes it raise.
C15_SetAllFailsFast ==
  ret.op = "setAll" /\ ret.err = "none" => LeavesAtFields(ret.arg)

\* C16: a setAll that raises TypeMismatch, ComponentCountMismatch or
\* UnknownField leaves the buffer as it was before the call.
C16_SetAllNoPartialWrite ==
  [][/\ ret'.op = "setAll"
     /\ ret'.err \in {"TypeMismatch", "ComponentCountMismatch", "UnknownField"}
     => buffer' = buffer]_vars

\* C17: clone returns a record with the field list, totalSize and
\* uniformBuffer of the original and the original's bytes at the time of the
\* call; after that no set, setAll or reset of the original changes a byte of
\* the clone, and none of the clone changes a byte of the original.
C17_CloneIndependent ==
  [][/\ ret'.op = "clone" =>
          /\ cloned'.record.err = "none"
          /\ cloned'.record.fields = fields
          /\ cloned'.record.fieldMap = fieldMap
          /\ cloned'.record.totalSize = totalSize
          /\ cloned'.record.uniformBuffer = uniformBuffer
          /\ cloned'.record.buffer = buffer
     /\ ret'.op \in {"set", "setAll", "reset"} => cloned' = cloned
     /\ ret'.op \in {"clone.set", "clone.setAll", "clone.reset"}
          => buffer' = buffer]_vars

\* C17 witness: a set on the clone of a record that held values; the two
\* buffers differ.
C17_Witness ==
  /\ cloned.made
  /\ ret.op = "clone.set" /\ ret.err = "none"
  /\ \E w \in 1..Len(buffer) : buffer[w] # 0
  /\ cloned.record.buffer # buffer

\* Every word of the buffer is zero and get returns 0, or a sequence of
\* zeros, for every path of the index.
AllZero ==
  /\ \A w \in 1..Len(buffer) : buffer[w] = 0
  /\ 4 * Len(buffer) = totalSize
  /\ \A key \in DOMAIN fieldMap :
       /\ GetOutcome(buffer, fieldMap, key).err = "none"
       /\ GetOutcome(buffer, fieldMap, key).value.items
            = Zeros(fieldMap[key].componentCount)

\* C18: after reset every byte of the buffer, all totalSize of them, is zero
\* and get returns 0 or an all-zero sequence for every field, whatever was
\* set before.
C18_ResetZeroes ==
  ret.op = "reset" => AllZero

\* C18 holds of every record whose specification holds no empty nested record.
C18_ResetWithoutEmptyRecords ==
  ret.op = "reset" /\ ~HasEmptyRecord(layout) => AllZero

\* C19: once the record is constructed no call, whether it returns or
\* throws, changes its field list, its path index, its totalSize or its
\* uniformBuffer flag; only the bytes of the buffer change.
C19_LayoutImmutable ==
  [][pc = "ready" =>
       UNCHANGED <<pc, layout, uniformBuffer, fields, fieldMap, totalSize>>]_vars

\* C19 witness: a call threw on a record whose bytes an earlier call changed.
C19_Witness ==
  /\ pc = "ready"
  /\ ret.err # "none"
  /\ \E w \in 1..Len(buffer) : buffer[w] # 0

\* C20: the totalSize of a constructed record is a positive integer and the
\* byte length of its buffer, and every leaf lies inside it:
\* 0 <= offset and offset + size <= totalSize, empty nested records below
\* the top level included.
C20_TotalSizeCoversFields ==
  pc = "ready" =>
    /\ totalSize > 0
    /\ 4 * Len(buffer) = totalSize
    /\ \A k \in 1..Len(fields) :
         /\ 0 <= fields[k].offset
         /\ fields[k].offset + fields[k].size <= totalSize

\* C20 holds of every record whose specification holds no empty nested record.
C20_WithoutEmptyRecords ==
  ~HasEmptyRecord(layout) => C20_TotalSizeCoversFields

(* ----------------------------------------------------------------------- *)
(* Rejected specifications                                                 *)
(* ----------------------------------------------------------------------- *)

\* What is wrong with the fields of a specification, at any depth, by the
\* error each flaw is to raise; the element of an array of non-positive
\* length is not looked at.
RECURSIVE FlawsIn(_)
FlawsIn(l) ==
  UNION {
    IF l[i].kind = "prim"
    THEN (IF l[i].type \in DOMAIN TYPES THEN {} ELSE {"UnknownType"})
    ELSE IF l[i].kind = "struct" THEN FlawsIn(l[i].layout)
    ELSE IF l[i].length <= 0 THEN {"InvalidArrayLength"}
    ELSE IF l[i].elem = "tag" THEN {"InvalidArrayElement"}
    ELSE IF l[i].layout = <<>> THEN {"InvalidLayout"}
    ELSE FlawsIn(l[i].layout) : i \in 1..Len(l)}

\* What is wrong with a specification handed to the constructor.
Flaws(l) == IF l = <<>> THEN {"InvalidLayout"} ELSE FlawsIn(l)

\* The constructor threw e and left no record.
Rejected(e) ==
  /\ pc = "threw"
  /\ ret.err = e
  /\ fields = <<>>
  /\ fieldMap = <<>>
  /\ buffer = <<>>

\* The top-level arrays [tag, n] of a specification with tag in the type
\* table and n > 0.
PrimitiveArrays(l) ==
  {i \in 1..Len(l) :
     /\ l[i].kind = "array"
     /\ l[i].elem = "tag"
     /\ l[i].type \in DOMAIN TYPES
     /\ l[i].length > 0}

\* C21: a specification whose only composite field is an array [tag, n] of a
\* primitive type tag with n > 0 is accepted, and the record has n leaves
\* below that field.
C21_PrimitiveElementAccepted ==
  pc # "new" /\ PrimitiveArrays(layout) # {}
             /\ Flaws(layout) = {"InvalidArrayElement"}
             /\ (\A i \in 1..Len(layout) :
                   layout[i].kind = "prim" \/ i \in PrimitiveArrays(layout))
    => /\ pc = "ready"
       /\ \A i \in PrimitiveArrays(layout) :
            Cardinality({k \in 1..Len(fields) :
                           Head(fields[k].path) = <<KeyAt(i)>>})
              = layout[i].length

\* The code rejects every array whose element is a string.
C21_PrimitiveElementRejected ==
  pc # "new" /\ PrimitiveArrays(layout) # {} => pc = "threw"

\* C22: constructing a record from the empty top-level specification raises
\* InvalidLayout and leaves no record.
C22_EmptyLayoutRejected ==
  pc # "new" /\ layout = <<>> => Rejected("InvalidLayout")

\* C22 witness: the constructor ran on the empty specification.
C22_Witness == pc # "new" /\ layout = <<>>

\* C23: a specification whose only flaw is a type tag outside the type
\* table, at the top level, in a nested record or in an element
\* specification, raises UnknownType and leaves no record.
C23_UnknownTypeRejected ==
  pc # "new" /\ Flaws(layout) = {"UnknownType"} => Rejected("UnknownType")

\* Whether a specification names one of the inherited property names as a
\* type tag, at any depth.
RECURSIVE HasInheritedTag(_)
HasInheritedTag(l) ==
  \E i \in 1..Len(l) :
     \/ l[i].kind = "prim" /\ l[i].type \in Inherited
     \/ l[i].kind # "prim" /\ HasInheritedTag(l[i].layout)

\* C23 holds of every tag that is not a property name objects inherit, and
\* with such a tag the constructor still throws and leaves no record.
C23_UnknownTypeUnlessInherited ==
  pc # "new" /\ Flaws(layout) = {"UnknownType"} =>
    IF HasInheritedTag(layout)
    THEN pc = "threw" /\ ret.err \in {"UnknownType", "TypeError"}
    ELSE Rejected("UnknownType")

ThisRecord == [err |-> "none", fields |-> fields, totalSize |-> totalSize]

C26_UniformOnlyPadsTotal ==
  pc = "ready" =>
    LET other == NewStruct(layout, ~uniformBuffer)
    IN /\ other.err = "none"
       /\ other.fields = fields
       /\ other.fieldMap = fieldMap
       /\ \A i \in 1..Len(layout) :
            LET p == <<(<<KeyAt(i)>>)>>
                alone == NewStruct(layout[i].layout, FALSE)
            IN /\ layout[i].kind = "struct" /\ layout[i].layout # <<>> =>
                    LET nested == ProcessNestedStruct(layout[i].layout, 0, p)
                    IN /\ nested.nextOffset = alone.totalSize
                       /\ nested.alignment = MaxLeafAlignment(alone.fields)
               /\ layout[i].kind = "array" /\ layout[i].elem = "inline" =>
                    ProcessArray(<<KeyAt(i)>>, layout[i], 0, p)
                      = ArrayResult(<<KeyAt(i)>>, layout[i].length, 0, p, alone)

\* C26 witness: a record with the uniform flag whose totalSize the flag
\* raised, with a nested record or an inline array of alignment below 16.
C26_Witness ==
  /\ pc = "ready"
  /\ uniformBuffer
  /\ IsFinite(totalSize)
  /\ NewStruct(layout, FALSE).totalSize < totalSize
  /\ \E i \in 1..Len(layout) :
       /\ layout[i].kind = "struct" \/ layout[i].elem = "inline"
       /\ layout[i].layout # <<>>
       /\ MaxLeafAlignment(NewStruct(layout[i].layout, FALSE).fields) \in {4, 8}

(* ----------------------------------------------------------------------- *)
(* FrameTime and RenderLoop                                                *)
(* ----------------------------------------------------------------------- *)

\* Times are counted in sixtieths of a second.

\* The value of a private field before its first assignment.  Every
\* comparison with it is false.
Undefined == -3

\* a > b and a < b of two numbers or Undefined.
Gt(a, b) == a # Undefined /\ b # Undefined /\ a > b

Lt(a, b) == a # Undefined /\ b # Undefined /\ a < b

\* A FrameTime before its constructor assigned anything.
BlankFrameTime == [min |-> Undefined, target |-> Undefined, max |-> Undefined]

\* MoveUp(ft, p, v): if (v > this.#p) this.#p = v
MoveUp(ft, p, v) == IF Gt(v, ft[p]) THEN [ft EXCEPT ![p] = v] ELSE ft

\* MoveDown(ft, p, v): if (v < this.#p) this.#p = v
MoveDown(ft, p, v) == IF Lt(v, ft[p]) THEN [ft EXCEPT ![p] = v] ELSE ft

\* SetMin that leaves max where it is.
SetMinKeepingMax(ft, v) == MoveUp([ft EXCEPT !.min = v], "target", v)

\* set min(v)
SetMin(ft, v) == MoveUp(MoveUp([ft EXCEPT !.min = v], "target", v), "max", v)

\* set max(v)
SetMax(ft, v) == MoveDown(MoveDown([ft EXCEPT !.max = v], "target", v), "min", v)

\* set target(v)
SetTarget(ft, v) == MoveUp(MoveDown([ft EXCEPT !.target = v], "min", v), "max", v)

\* new FrameTime(min, target, max)
NewFrameTime(min, target, max) ==
  SetMax(SetTarget(SetMin(BlankFrameTime, min), target), max)

\* The clock, and every value of a property of frametime.
MaxTime == 4

Times == 0..MaxTime

\* Frame requests made of the browser.
MaxIds == 3

\* Frames rendered since the last restart.
MaxFrames == 3

\* this.maxPendingFrames
maxPendingFrames == 2

\* No WebGPUStruct is constructed.
NoStruct ==
  /\ pc = "new"
  /\ layout = <<>>
  /\ uniformBuffer = FALSE
  /\ fields = <<>>
  /\ fieldMap = <<>>
  /\ totalSize = 0
  /\ buffer = <<>>
  /\ ret = NoCall
  /\ written = <<>>
  /\ calls = 0
  /\ held = NoHeld
  /\ cloned = NoClone

\* The fields of a RenderLoop after new RenderLoop(callback, minFrameTime),
\* other than frametime.
NewLoop ==
  /\ paused = TRUE
  /\ animFrameId = 0
  /\ prevStepTime = 0
  /\ framesPending = 0
  /\ frameCount = 0
  /\ timeSinceLastRender = 0
  /\ timeSinceFirstRender = 0
  /\ now = 0
  /\ requests = {}
  /\ nextId = 1
  /\ submitted = 0
  /\ at = "idle"
  /\ inLoop = FALSE
  /\ halted = "no"

\* The last assignment: the property, the value, and frametime before it.
Assignment(prop, v, before) == [prop |-> prop, value |-> v, before |-> before]

\* new FrameTime(min, target, max) with any three times.
InitFrameTime ==
  /\ NoStruct
  /\ NewLoop
  /\ \E min \in Times, target \in Times, max \in Times :
       /\ frametime = NewFrameTime(min, target, max)
       /\ assigned = Assignment("max", max,
                                SetTarget(SetMin(BlankFrameTime, min), target))

\* frametime.min = v, frametime.target = v, frametime.max = v
Assign(prop, v) ==
  /\ assigned' = Assignment(prop, v, frametime)
  /\ frametime' = IF prop = "min" THEN SetMin(frametime, v)
                  ELSE IF prop = "target" THEN SetTarget(frametime, v)
                  ELSE SetMax(frametime, v)
  /\ UNCHANGED svars
  /\ UNCHANGED <<paused, animFrameId, prevStepTime, framesPending, frameCount,
                 timeSinceLastRender, timeSinceFirstRender, now, requests,
                 nextId, submitted, at, inLoop, halted>>

NextFrameTime ==
  \/ \E v \in Times : Assign("min", v)
  \/ \E v \in Times : Assign("target", v)
  \/ \E v \in Times : Assign("max", v)

SpecFrameTime == InitFrameTime /\ [][NextFrameTime]_vars

\* cancelAnimationFrame(id)
Cancel(reqs, id) == {r \in reqs : r.id # id}

\* requestAnimationFrame(loop) returning id: the callback runs in a later
\* frame than the one of the request.
Request(reqs, id) == reqs \cup {[id |-> id, time |-> now]}

\* Where the render callback and the listeners of 'step' and 'render' run,
\* and outside every step: where start, stop and restart can be called.
Callable == {"idle", "step", "callback", "render"}

\* getDeltaTime(currentTime), and frametime.target for a step() without
\* currentTime.
DeltaTime(given) ==
  IF given /\ now - prevStepTime < frametime.max
  THEN now - prevStepTime
  ELSE frametime.target

\* The browser's clock advances while no code runs.
Tick ==
  /\ at = "idle"
  /\ now < MaxTime
  /\ now' = now + 1
  /\ UNCHANGED svars
  /\ UNCHANGED <<frametime, assigned, paused, animFrameId, prevStepTime,
                 framesPending, frameCount, timeSinceLastRender,
                 timeSinceFirstRender, requests, nextId, submitted, at,
                 inLoop, halted>>

\* step(currentTime), lines 88-99: up to this.pubsub.call('step').
Begin(given) ==
  /\ frameCount < MaxFrames
  /\ \E deltaTime \in {DeltaTime(given)} :
       /\ timeSinceLastRender + deltaTime <= MaxTime
       /\ timeSinceFirstRender + deltaTime <= MaxTime
       /\ timeSinceLastRender' = timeSinceLastRender + deltaTime
       /\ timeSinceFirstRender' = timeSinceFirstRender + deltaTime
  /\ prevStepTime' = now
  /\ animFrameId' = 0
  /\ at' = "step"

\* A step() called by hand while no step executes.
ManualStep ==
  /\ at = "idle"
  /\ Begin(FALSE)
  /\ inLoop' = FALSE
  /\ UNCHANGED svars
  /\ UNCHANGED <<frametime, assigned, paused, framesPending, frameCount, now,
                 requests, nextId, submitted, halted>>

\* The browser runs the callback of the outstanding request r: loop(now).
Frame(r) ==
  /\ at = "idle"
  /\ r \in requests
  /\ r.time < now
  /\ nextId <= MaxIds
  /\ requests' = requests \ {r}
  /\ Begin(TRUE)
  /\ inLoop' = TRUE
  /\ UNCHANGED svars
  /\ UNCHANGED <<frametime, assigned, paused, framesPending, frameCount, now,
                 nextId, submitted, halted>>

\* step, lines 101-109: the listeners of 'step' returned; return, or call
\* the render callback.
StepGate ==
  /\ at = "step"
  /\ at' = IF \/ framesPending > maxPendingFrames
              \/ frametime.min > timeSinceLastRender
           THEN "return" ELSE "callback"
  /\ UNCHANGED svars
  /\ UNCHANGED <<frametime, assigned, paused, animFrameId, prevStepTime,
                 framesPending, frameCount, timeSinceLastRender,
                 timeSinceFirstRender, now, requests, nextId, submitted,
                 inLoop, halted>>

\* step, lines 111-113: the callback returned; the listeners of 'render'
\* are called, the first of them BaseRenderer's: framesPending++ and
\* onSubmittedWorkDone().
StepRender ==
  /\ at = "callback"
  /\ frameCount' = frameCount + 1
  /\ timeSinceLastRender' = 0
  /\ framesPending' = framesPending + 1
  /\ submitted' = submitted + 1
  /\ at' = "render"
  /\ UNCHANGED svars
  /\ UNCHANGED <<frametime, assigned, paused, animFrameId, prevStepTime,
                 timeSinceFirstRender, now, requests, nextId, inLoop, halted>>

\* step returns; in loop, lines 125-127: the next frame is requested unless
\* the loop is paused.
StepReturn ==
  /\ at \in {"render", "return"}
  /\ at' = "idle"
  /\ inLoop' = FALSE
  /\ IF inLoop /\ ~paused
     THEN /\ animFrameId' = nextId
          /\ requests' = Request(requests, nextId)
          /\ nextId' = nextId + 1
     ELSE UNCHANGED <<animFrameId, requests, nextId>>
  /\ UNCHANGED svars
  /\ UNCHANGED <<frametime, assigned, paused, prevStepTime, framesPending,
                 frameCount, timeSinceLastRender, timeSinceFirstRender, now,
                 submitted, halted>>

\* The promise of onSubmittedWorkDone() resolves while no code runs:
\* framesPending--.
WorkDone ==
  /\ at = "idle"
  /\ submitted > 0
  /\ submitted' = submitted - 1
  /\ framesPending' = framesPending - 1
  /\ UNCHANGED svars
  /\ UNCHANGED <<frametime, assigned, paused, animFrameId, prevStepTime,
                 frameCount, timeSinceLastRender, timeSinceFirstRender, now,
                 requests, nextId, at, inLoop, halted>>

\* stop(), called outside every step, or by the render callback or a
\* listener.
Stop ==
  /\ at \in Callable
  /\ IF animFrameId = 0
     THEN /\ halted' = "early"
          /\ UNCHANGED <<requests, animFrameId, paused, prevStepTime>>
     ELSE /\ requests' = Cancel(requests, animFrameId)
          /\ animFrameId' = 0
          /\ paused' = TRUE
          /\ prevStepTime' = now
          /\ halted' = "full"
  /\ UNCHANGED svars
  /\ UNCHANGED <<frametime, assigned, framesPending, frameCount,
                 timeSinceLastRender, timeSinceFirstRender, now, nextId,
                 submitted, at, inLoop>>

\* start() from its call of stop() on; prev is #prevStepTime before it.
Starting(prev) ==
  /\ at \in Callable
  /\ nextId + (IF inLoop THEN 1 ELSE 0) <= MaxIds
  /\ requests' = Request(IF animFrameId = 0 THEN requests
                         ELSE Cancel(requests, animFrameId), nextId)
  /\ prevStepTime' = IF animFrameId = 0 THEN prev ELSE now
  /\ paused' = FALSE
  /\ animFrameId' = nextId
  /\ nextId' = nextId + 1
  /\ halted' = "no"

\* start()
Start ==
  /\ Starting(prevStepTime)
  /\ UNCHANGED svars
  /\ UNCHANGED <<frametime, assigned, framesPending, frameCount,
                 timeSinceLastRender, timeSinceFirstRender, now, submitted,
                 at, inLoop>>

\* restart()
Restart ==
  /\ frameCount' = 0
  /\ timeSinceFirstRender' = 0
  /\ Starting(now)
  /\ UNCHANGED svars
  /\ UNCHANGED <<frametime, assigned, framesPending, timeSinceLastRender,
                 now, submitted, at, inLoop>>

\* new RenderLoop(callback, minFrameTime): frametime is
\* new FrameTime(minFrameTime), with target 1/60 s and max 1/15 s.
InitLoop ==
  /\ NoStruct
  /\ NewLoop
  /\ \E minFrameTime \in {0, 2} :
       /\ frametime = NewFrameTime(minFrameTime, 1, 4)
       /\ assigned = Assignment("max", 4,
                                SetTarget(SetMin(BlankFrameTime, minFrameTime), 1))

NextLoop ==
  \/ Tick
  \/ ManualStep
  \/ \E r \in requests : Frame(r)
  \/ StepGate
  \/ StepRender
  \/ StepReturn
  \/ WorkDone
  \/ Stop
  \/ Start
  \/ Restart

SpecLoop == InitLoop /\ [][NextLoop]_vars

(* ----------------------------------------------------------------------- *)
(* Properties of FrameTime and RenderLoop                                  *)
(* ----------------------------------------------------------------------- *)

\* The place of a property of a FrameTime in min <= target <= max.
PropIndex == [min |-> 1, target |-> 2, max |-> 3]

\* Whether the property p with value x is on the wrong side of the value v
\* assigned to the property q.
WrongSide(p, x, q, v) ==
  IF PropIndex[p] < PropIndex[q] THEN Gt(x, v) ELSE Lt(x, v)

\* C27: after construction and after every assignment to min, target or max,
\* min <= target <= max, the property assigned last holds the assigned
\* value, and each of the other two holds the assigned value if it was on
\* the wrong side of it and is unchanged otherwise.
C27_FrameTimeOrdered ==
  /\ \A p \in DOMAIN PropIndex : frametime[p] \in Times
  /\ frametime.min <= frametime.target
  /\ frametime.target <= frametime.max
  /\ frametime[assigned.prop] = assigned.value
  /\ \A p \in DOMAIN PropIndex \ {assigned.prop} :
       frametime[p] =
         IF WrongSide(p, assigned.before[p], assigned.prop, assigned.value)
         THEN assigned.value ELSE assigned.before[p]

\* C27 witness: an assignment to min above target and max moved both.
C27_Witness ==
  /\ assigned.prop = "min"
  /\ Lt(assigned.before.target, assigned.value)
  /\ Lt(assigned.before.target, assigned.before.max)
  /\ Lt(assigned.before.max, assigned.value)

\* C28: once stop() returned, and until start() or restart() is called,
\* paused is true and no frame step can run: no frame request is
\* outstanding, wherever stop() was called from.
C28_StopHalts ==
  halted # "no" => paused /\ requests = {}

\* What stop() does when it finds the id of a request: paused is true and
\* the id is cleared; a request the loop holds no id of stays outstanding.
C28_StopWithRequestId ==
  halted = "full" => paused /\ animFrameId = 0

\* C29: at most one frame request is outstanding at any time.
C29_OneRequest ==
  Cardinality(requests) <= 1

\* What the code keeps: the id the loop holds is the id of an outstanding
\* request, so stop() and start() cancel that one request and no other.
C29_RequestsWithinIds ==
  /\ Cardinality(requests) < nextId
  /\ \A r \in requests : r.id < nextId
  /\ animFrameId # 0 => \E r \in requests : r.id = animFrameId

\* C30: framesPending stays within 0..maxPendingFrames, and the render
\* callback is not running with maxPendingFrames frames pending.
C30_BackPressure ==
  /\ framesPending \in 0..maxPendingFrames
  /\ at = "callback" => framesPending < maxPendingFrames

\* What the code keeps: one frame more than maxPendingFrames.
C30_BackPressureOffByOne ==
  /\ framesPending \in 0..(maxPendingFrames + 1)
  /\ framesPending = submitted
  /\ at = "callback" => framesPending <= maxPendingFrames

====
